---------------------------- MODULE Spec2Model ----------------------------
(***************************************************************************)
(* DynamoDB Payload Formatter: the content script (the hover build with    *)
(* the preview panel and the basic build without it) and the background    *)
(* script, as one state machine over browser events.                       *)
(*                                                                         *)
(* Texts are modelled by their structure, so that every stage of the       *)
(* decode pipeline is a real conversion:                                   *)
(*   <<"empty">>            the empty string                               *)
(*   <<"text">>             text that is neither base64 nor JSON           *)
(*   <<"json", d, style>>   the JSON text of document d, style "compact"   *)
(*                          or "indent2"                                   *)
(*   <<"b64", bytes>>       the base64 encoding of bytes                   *)
(*   <<"pad", s>>           s with whitespace around it                    *)
(* and bytes are                                                           *)
(*   <<"utf8", s>>          the UTF-8 encoding of the text s               *)
(*   <<"gzip", bytes>>      a gzip stream holding bytes                    *)
(***************************************************************************)
EXTENDS Integers, Sequences, FiniteSets, TLC

\* ------------------------------------------------------------- bounds
\* Number of distinct JSON documents the sample payloads hold.
MaxDocs == 2
\* How many throttle periods the clock may advance: with every part of the
\* extension running (enough for a hover timer to fire), and with the page's
\* hover handling alone (enough for a second timer to fire after the first).
MaxTicks == 3
MaxHoverTicks == 6
\* Context-menu clicks followed per behaviour.
MaxClicks == 1
\* Clipboard writes whose promise is still unsettled.
MaxPendingWrites == 1
\* Date.now() when the content script is constructed (any value >= the throttle).
LoadTime == 1000

\* ------------------------------------------------- program constants
_hoverDelay == 300
_mouseMoveThrottle == 100

\* The clock advances in throttle periods: two mousemove events are 0 ms apart
\* (throttled) or 100 ms and more apart (processed).
TickMs == _mouseMoveThrottle

\* ------------------------------------------------------------- the DOM
Null == "null"
Textareas == {"ta1", "ta2"}
\* the panel element and two nodes inside it (content area, copy button)
PanelNodes == {"panel", "copyButton"}
Elements == Textareas \cup {"div"} \cup PanelNodes

tagName(el) == IF el \in Textareas THEN "TEXTAREA"
               ELSE IF el = "copyButton" THEN "BUTTON" ELSE "DIV"

\* panel.contains(node)
panelContains(el) == el \in PanelNodes

Docs == 1..MaxDocs
Wrap(d) == <<"b64", <<"gzip", <<"utf8", <<"json", d, "compact">>>>>>>>

\* What a textarea may hold.
SampleValues ==
    { <<"empty">>,
      <<"pad", <<"empty">>>>,
      <<"text">>,
      <<"b64", <<"utf8", <<"text">>>>>>,
      <<"b64", <<"gzip", <<"utf8", <<"text">>>>>>>>,
      <<"pad", Wrap(1)>> }
    \cup { Wrap(d) : d \in Docs }

\* The textareas of the page: the first holds any sample, the second is blank,
\* or holds another payload when the first holds one.
InitialValues ==
    { v \in [Textareas -> SampleValues] :
        \/ v["ta2"] = <<"pad", <<"empty">>>>
        \/ v["ta1"] = Wrap(1) /\ v["ta2"] = Wrap(MaxDocs) }

\* String.prototype.trim
trim(s) == IF s[1] = "pad" THEN s[2] ELSE s

\* !s for a string
isEmptyString(s) == s[1] = "empty"

\* ------------------------------------------------------------ geometry
\* What positionPanel reads when a preview is shown: the textarea's
\* getBoundingClientRect() (left, right, top) and the window's inner size.
Layout(left, right, top, innerWidth, innerHeight) ==
    [left |-> left, right |-> right, top |-> top,
     innerWidth |-> innerWidth, innerHeight |-> innerHeight]

\* The layout of the page where the position is not looked at: a field in the
\* upper left of a large window.
Layouts == {Layout(100, 400, 200, 1280, 800)}

\* Layouts around every threshold of positionPanel: fields that leave room on
\* the right or not, room on the left or not, that start above the window,
\* near its top, and within and beyond a panel's height of its bottom.
LayoutGrid ==
    { Layout(left, left + width, top, innerWidth, innerHeight) :
        left \in {0, 300, 520, 700},
        width \in {180, 190, 191},
        top \in {-20, 9, 10, 200, 390, 395, 400, 401},
        innerWidth \in {1200},
        innerHeight \in {300, 800} }

max(a, b) == IF a >= b THEN a ELSE b

\* positionPanel: the panel's style.left and style.top in px
positionPanel(l) ==
    LET right_ == l.right + 10
        left == IF right_ + 500 > l.innerWidth THEN l.left - 510 ELSE right_
        below == IF l.top + 400 > l.innerHeight
                 THEN l.innerHeight - 400 - 10 ELSE l.top
        top == IF below < 10 THEN 10 ELSE below
    IN <<max(10, left), top>>

\* ------------------------------------------------- the decode pipeline
\* A call either returns ([ok |-> TRUE, val |-> v]) or throws
\* ([ok |-> FALSE, msg |-> m]).
Return(v) == [ok |-> TRUE, val |-> v]
Throw(m) == [ok |-> FALSE, msg |-> m]

\* atob plus the byte copy; every failure is rethrown with one message
decodeBase64(s) ==
    IF s[1] = "b64" THEN Return(s[2]) ELSE Throw("Invalid base64 encoding")

\* pako.inflate, failures rethrown with one message
decompressGzip(bytes) ==
    IF bytes[1] = "gzip" THEN Return(bytes[2])
    ELSE Throw("Failed to decompress gzip data")

\* new TextDecoder().decode: never throws, malformed input becomes
\* replacement characters
textDecode(bytes) == IF bytes[1] = "utf8" THEN bytes[2] ELSE <<"text">>

\* JSON.parse
jsonParse(s) ==
    IF s[1] = "json" THEN Return(s[2]) ELSE Throw("Unexpected token")

\* JSON.stringify(v, null, 2)
jsonStringify2(d) == <<"json", d, "indent2">>

\* The try block shared by both builds: the formatted JSON, or the first throw.
pipeline(base64Content) ==
    LET b == decodeBase64(base64Content) IN
    IF ~b.ok THEN b ELSE
    LET z == decompressGzip(b.val) IN
    IF ~z.ok THEN z ELSE
    LET p == jsonParse(textDecode(z.val)) IN
    IF ~p.ok THEN p ELSE Return(jsonStringify2(p.val))

\* A processPayload call: whether it threw, what it returned, and the texts
\* it handed to copyToClipboard.
Outcome(threw, result, copies) ==
    [threw |-> threw, result |-> result, copies |-> copies]

NoResult == [none |-> TRUE]

\* The catch block drops the exception: the pipeline without it.
processPayload_nocatch(bld, base64Content) ==
    LET r == pipeline(base64Content) IN
    IF r.ok
    THEN Outcome(FALSE, [success |-> TRUE, data |-> r.val],
                 IF bld = "basic" THEN <<r.val>> ELSE <<>>)
    ELSE Outcome(TRUE, NoResult, <<>>)

processPayload(bld, base64Content) ==
    LET r == pipeline(base64Content) IN
    IF r.ok
    THEN Outcome(FALSE, [success |-> TRUE, data |-> r.val],
                 IF bld = "basic" THEN <<r.val>> ELSE <<>>)
    ELSE IF bld = "basic"
         THEN Outcome(FALSE,
                      [success |-> FALSE,
                       error |-> "Failed to process payload: " \o r.msg], <<>>)
         ELSE Outcome(FALSE, [success |-> FALSE], <<>>)

\* result.success && result.data
hasData(result) ==
    /\ "success" \in DOMAIN result
    /\ result.success
    /\ "data" \in DOMAIN result
    /\ ~isEmptyString(result.data)


\* ---------------------------------------------------------------- state
VARIABLES
    build,              \* which content script runs: "hover" or "basic"
    inConsole,          \* window.location.hostname includes the console host
    value,              \* textarea.value of each textarea
    pointer,            \* the element under the mouse pointer, Null before it moves
    _lastRightClickedElement,
    _hoverTimeout,      \* a timer id, 0 for null
    _currentHoveredTextarea,
    _lastMouseMoveTime,
    _previewPanel,      \* isVisible, display, position, content, onclick of the
                        \* one panel
    panels,             \* preview-panel elements createPreviewPanel appended to
                        \* document.body
    now,                \* Date.now()
    timers,             \* pending window.setTimeout callbacks of startHoverTimer
    clipboard,          \* the text on the system clipboard
    writes,             \* navigator.clipboard.writeText promises not yet settled
    body,               \* temporary textareas attached to document.body
    requests,           \* messages sent by the background script, not yet handled
    responses,          \* sendResponse results not yet received by the background script
    notifications,      \* chrome.notifications.create calls, in order
    clicks,             \* context-menu clicks that passed the listener's condition
    ev,                 \* the event handled by the last step, and what it did
    shownSinceEnter     \* the panel has shown the textarea under the pointer since
                        \* the pointer came onto it

vars == <<build, inConsole, value, pointer, _lastRightClickedElement, _hoverTimeout,
          _currentHoveredTextarea, _lastMouseMoveTime, _previewPanel, panels, now,
          timers, clipboard, writes, body, requests, responses, notifications, clicks, ev,
          shownSinceEnter>>

envVars == <<build, inConsole, value>>
hoverVars == <<_hoverTimeout, _currentHoveredTextarea, _lastMouseMoveTime,
               _previewPanel, panels, timers>>
clipVars == <<clipboard, writes, body>>
bgVars == <<requests, responses, notifications, clicks>>

NoText == <<"empty">>
NoHandler == <<"none">>

\* createPreviewPanel: display: none, isVisible: false, no left and top, no
\* onclick yet
InitialPanel ==
    [isVisible |-> FALSE, display |-> "none", position |-> <<>>,
     content |-> NoText, onclick |-> NoHandler]

Init ==
    /\ build \in {"hover", "basic"}
    /\ inConsole \in BOOLEAN
    /\ value \in InitialValues
    /\ pointer = Null
    /\ _lastRightClickedElement = Null
    /\ _hoverTimeout = 0
    /\ _currentHoveredTextarea = Null
    /\ _lastMouseMoveTime = 0
    /\ _previewPanel = InitialPanel
    /\ panels = IF build = "hover" THEN 1 ELSE 0
    /\ now = LoadTime
    /\ timers = {}
    /\ clipboard = NoText
    /\ writes = <<>>
    /\ body = 0
    /\ requests = <<>>
    /\ responses = <<>>
    /\ notifications = <<>>
    /\ clicks = 0
    /\ ev = [op |-> "load"]
    /\ shownSinceEnter = FALSE

\* An element can be the target of a mouse event only while it is rendered:
\* the panel and its nodes exist in the hover build and are hit only while
\* display is block.
Rendered(el) ==
    el \in PanelNodes => (build = "hover" /\ _previewPanel.display = "block")


\* ------------------------------------------- what a payload should give
\* s is the base64 text of a gzip stream of a JSON document
IsPayload(s) == \E d \in Docs : s = Wrap(d)
PayloadDoc(s) == CHOOSE d \in Docs : s = Wrap(d)
\* the document printed with two-space indentation
Pretty(d) == <<"json", d, "indent2">>
\* a textarea's text without the whitespace around it
Content(el) == IF value[el][1] = "pad" THEN value[el][2] ELSE value[el]
Decodable(el) == el \in Textareas /\ IsPayload(Content(el))
\* panel value p shows textarea el's formatted JSON
Shows(p, el) ==
    /\ Decodable(el)
    /\ p.isVisible
    /\ p.content = Pretty(PayloadDoc(Content(el)))

\* The update of shownSinceEnter by a step that may move the pointer or
\* change the panel.
TrackShown ==
    shownSinceEnter' =
        (\/ pointer' = pointer /\ shownSinceEnter
         \/ Shows(_previewPanel', pointer'))

\* --------------------------------------------- the hover state machine
\* The fields the hover handlers read and write, as one value, so that the
\* private methods compose in the order the code calls them.
HoverState(timeout, hovered, panel, elements, pending) ==
    [timeout |-> timeout, hovered |-> hovered, panel |-> panel,
     panels |-> elements, timers |-> pending]

Here ==
    HoverState(_hoverTimeout, _currentHoveredTextarea, _previewPanel, panels, timers)

\* window.setTimeout returns an id no pending timer has
FreshTimerId(h) ==
    CHOOSE i \in 1..(Cardinality(h.timers) + 1) : \A t \in h.timers : t.id # i

\* clearHoverTimer, and the body of the panel's mouseenter listener
clearHoverTimer(h) ==
    IF h.timeout # 0
    THEN [h EXCEPT !.timers = {t \in h.timers : t.id # h.timeout}, !.timeout = 0]
    ELSE h

\* hidePreviewPanel that takes the element off the screen and leaves the flag
hidePreviewPanel_keepsFlag(h) ==
    clearHoverTimer(
        IF h.panel.isVisible THEN [h EXCEPT !.panel.display = "none"] ELSE h)

\* hidePreviewPanel without its trailing clearHoverTimer()
hidePreviewPanel_keepsTimer(h) ==
    IF h.panel.isVisible
    THEN [h EXCEPT !.panel.display = "none", !.panel.isVisible = FALSE]
    ELSE h

hidePreviewPanel(h) ==
    clearHoverTimer(
        IF h.panel.isVisible
        THEN [h EXCEPT !.panel.display = "none", !.panel.isVisible = FALSE]
        ELSE h)

\* startHoverTimer that arms the new timer without clearing the old one
startHoverTimer_noclear(h, textarea, t) ==
    [h EXCEPT !.hovered = textarea,
              !.timeout = FreshTimerId(h),
              !.timers = h.timers \cup
                  {[id |-> FreshTimerId(h), ta |-> textarea, due |-> t + _hoverDelay]}]

startHoverTimer(h, textarea, t) ==
    LET c == clearHoverTimer(h)
        id == FreshTimerId(c)
    IN [c EXCEPT !.hovered = textarea,
                 !.timeout = id,
                 !.timers = c.timers \cup
                     {[id |-> id, ta |-> textarea, due |-> t + _hoverDelay]}]

\* showPreviewPanel that builds a panel element for each preview it shows
showPreviewPanel_createsPanel(h, content, l) ==
    [h EXCEPT !.panel.content = content,
              !.panel.isVisible = TRUE,
              !.panel.display = "block",
              !.panel.position = positionPanel(l),
              !.panels = h.panels + 1]

\* showPreviewPanel, for a textarea in layout l
showPreviewPanel(h, content, l) ==
    [h EXCEPT !.panel.content = content,
              !.panel.isVisible = TRUE,
              !.panel.display = "block",
              !.panel.position = positionPanel(l)]

\* A call of processPayload made by a handler.
Call(input, out) == [input |-> input, out |-> out]

\* showPreviewForTextarea that wires the copy button at the first preview only
showPreviewForTextarea_keepsHandler(h, textarea, val, l) ==
    IF isEmptyString(trim(val))
    THEN [h |-> h, calls |-> <<>>]
    ELSE LET out == processPayload("hover", trim(val)) IN
         IF out.threw
         THEN [h |-> h, calls |-> <<Call(trim(val), out)>>]
         ELSE IF hasData(out.result)
         THEN [h |-> [showPreviewPanel(h, out.result.data, l)
                         EXCEPT !.panel.onclick =
                             IF h.panel.onclick = NoHandler
                             THEN out.result.data ELSE h.panel.onclick],
               calls |-> <<Call(trim(val), out)>>]
         ELSE [h |-> hidePreviewPanel(h), calls |-> <<Call(trim(val), out)>>]

\* showPreviewForTextarea: the new hover state and the processPayload calls made
showPreviewForTextarea(h, textarea, val, l) ==
    IF isEmptyString(trim(val))
    THEN [h |-> h, calls |-> <<>>]
    ELSE LET out == processPayload("hover", trim(val)) IN
         IF out.threw
         THEN [h |-> h, calls |-> <<Call(trim(val), out)>>]
         ELSE IF hasData(out.result)
         THEN [h |-> [showPreviewPanel(h, out.result.data, l)
                         EXCEPT !.panel.onclick = out.result.data],
               calls |-> <<Call(trim(val), out)>>]
         ELSE [h |-> hidePreviewPanel(h), calls |-> <<Call(trim(val), out)>>]

\* a throttle test that also drops the event arriving exactly one period later
throttled_inclusive(t, last) == t - last <= _mouseMoveThrottle

\* the throttle test of handleMouseMove
throttled(t, last) == t - last < _mouseMoveThrottle

\* a host test that lets every page through
isInDynamoDBConsole_anyHost == TRUE

isInDynamoDBConsole == inConsole

\* handleMouseMove that opens the panel as soon as the pointer enters a textarea
handleMouseMove_showsAtOnce(h, target, t) ==
    IF tagName(target) = "TEXTAREA" /\ isInDynamoDBConsole
    THEN IF h.hovered # target
         THEN showPreviewPanel(startHoverTimer(h, target, t), NoText,
                               Layout(0, 0, 0, 0, 0))
         ELSE h
    ELSE IF h.hovered # Null
         THEN hidePreviewPanel(clearHoverTimer([h EXCEPT !.hovered = Null]))
         ELSE h

\* handleMouseMove after the throttle let the event through
handleMouseMove(h, target, t) ==
    IF tagName(target) = "TEXTAREA" /\ isInDynamoDBConsole
    THEN IF h.hovered # target THEN startHoverTimer(h, target, t) ELSE h
    ELSE IF h.hovered # Null
         THEN hidePreviewPanel(clearHoverTimer([h EXCEPT !.hovered = Null]))
         ELSE h

SetHover(h) ==
    /\ _hoverTimeout' = h.timeout
    /\ _currentHoveredTextarea' = h.hovered
    /\ _previewPanel' = h.panel
    /\ panels' = h.panels
    /\ timers' = h.timers

\* Where the pointer is once the panel's display is d: a hidden panel is no
\* longer under the pointer, the page below it is.
PointerAfter(el, d) == IF el \in PanelNodes /\ d # "block" THEN "div" ELSE el

\* The mouse moves to `target`: the panel's mouseenter listener runs when the
\* pointer comes onto the panel from outside it, then the document's mousemove
\* listener.
PointerMove(target) ==
    /\ Rendered(target)
    /\ IF build = "hover"
       THEN LET entered == panelContains(target) /\ ~panelContains(pointer)
                h1 == IF entered THEN clearHoverTimer(Here) ELSE Here
                skip == throttled(now, _lastMouseMoveTime)
                h2 == IF skip THEN h1 ELSE handleMouseMove(h1, target, now)
            IN /\ SetHover(h2)
               /\ _lastMouseMoveTime' = IF skip THEN _lastMouseMoveTime ELSE now
               /\ pointer' = PointerAfter(target, h2.panel.display)
               /\ ev' = [op |-> "mousemove", target |-> target, processed |-> ~skip,
                         entered |-> entered]
       ELSE /\ UNCHANGED hoverVars
            /\ pointer' = target
            /\ ev' = [op |-> "mousemove", target |-> target, processed |-> FALSE,
                      entered |-> FALSE]
    /\ TrackShown
    /\ UNCHANGED <<envVars, _lastRightClickedElement, now, clipVars, bgVars>>

\* Time passes, up to `limit` ticks after the script was loaded.
Tick(limit) ==
    /\ now < LoadTime + limit * TickMs
    /\ now' = now + TickMs
    /\ ev' = [op |-> "tick"]
    /\ UNCHANGED <<envVars, pointer, _lastRightClickedElement, hoverVars, clipVars, bgVars,
                   shownSinceEnter>>

\* The callback startHoverTimer handed to setTimeout runs, its delay over,
\* with the page laid out as l.
TimerFire(t, l) ==
    /\ t \in timers
    /\ t.due <= now
    /\ LET h0 == [Here EXCEPT !.timers = timers \ {t}]
           ran == h0.hovered = t.ta
           r == IF ran THEN showPreviewForTextarea(h0, t.ta, value[t.ta], l)
                ELSE [h |-> h0, calls |-> <<>>]
       IN /\ SetHover(r.h)
          /\ pointer' = PointerAfter(pointer, r.h.panel.display)
          /\ ev' = [op |-> "timer", ta |-> t.ta, ran |-> ran, calls |-> r.calls,
                    layout |-> l]
    /\ TrackShown
    /\ UNCHANGED <<envVars, _lastRightClickedElement, _lastMouseMoveTime, now,
                   clipVars, bgVars>>


\* ------------------------------------------------------- the clipboard
ClipState(text, pending, attached) ==
    [clipboard |-> text, writes |-> pending, body |-> attached]

ClipHere == ClipState(clipboard, writes, body)

\* What a copyToClipboard call meets: "api", writeText returns a promise that
\* settles later; "fallback", writeText is missing or throws at once and
\* execCommand('copy') copies; "fallbackFails", the same and execCommand
\* copies nothing.
CopyWays == {"api", "fallback", "fallbackFails"}

\* a catch block that leaves its temporary textarea in the document
manualCopy_leavesTextarea(c, text, copied) ==
    LET appended == [c EXCEPT !.body = c.body + 1]
    IN IF copied THEN [appended EXCEPT !.clipboard = text] ELSE appended

\* the catch block of copyToClipboard: a temporary textarea is appended,
\* selected, copied from and removed
manualCopy(c, text, copied) ==
    LET appended == [c EXCEPT !.body = c.body + 1]
        done == IF copied THEN [appended EXCEPT !.clipboard = text] ELSE appended
    IN [done EXCEPT !.body = done.body - 1]

copyToClipboard(c, text, how) ==
    IF how = "api"
    THEN [c EXCEPT !.writes = Append(c.writes, text)]
    ELSE manualCopy(c, text, how = "fallback")

RECURSIVE copyEach(_, _, _)
copyEach(c, texts, how) ==
    IF texts = <<>> THEN c
    ELSE copyEach(copyToClipboard(c, Head(texts), how), Tail(texts), how)

SetClip(c) ==
    /\ clipboard' = c.clipboard
    /\ writes' = c.writes
    /\ body' = c.body

\* A handler that hands `texts` to copyToClipboard, every call met the way `how`.
CopyAllowed(texts, how) ==
    /\ texts = <<>> => how = "fallback"
    /\ how = "api" => Len(writes) + Len(texts) <= MaxPendingWrites

\* A pending writeText promise settles: it resolves and the text is on the
\* clipboard, or it rejects and the catch block copies by hand.
SettleWrite(outcome) ==
    /\ writes # <<>>
    /\ LET text == Head(writes)
           c0 == [ClipHere EXCEPT !.writes = Tail(writes)]
       IN /\ SetClip(IF outcome = "resolved"
                     THEN [c0 EXCEPT !.clipboard = text]
                     ELSE manualCopy(c0, text, outcome = "fallback"))
          /\ ev' = [op |-> "settle", text |-> text, outcome |-> outcome]
    /\ UNCHANGED <<envVars, pointer, _lastRightClickedElement, hoverVars,
                   now, bgVars, shownSinceEnter>>

\* ------------------------------------------------- clicks in the page
\* The document's two click listeners (attachEventListeners and
\* createPreviewPanel register the same one).
clickOutside(h, target) ==
    IF h.panel.isVisible /\ ~panelContains(target) THEN hidePreviewPanel(h) ELSE h

\* A click at the pointer: the copy button's onclick, then the document's
\* click listeners.
Click(how) ==
    /\ pointer # Null
    /\ LET target == pointer
           copies == IF build = "hover" /\ target = "copyButton"
                        /\ _previewPanel.onclick # NoHandler
                     THEN <<_previewPanel.onclick>> ELSE <<>>
           h == IF build = "hover"
                THEN clickOutside(clickOutside(Here, target), target)
                ELSE Here
       IN /\ CopyAllowed(copies, how)
          /\ SetClip(copyEach(ClipHere, copies, how))
          /\ SetHover(h)
          /\ pointer' = PointerAfter(pointer, h.panel.display)
          /\ ev' = [op |-> "click", target |-> target, copied |-> copies]
    /\ TrackShown
    /\ UNCHANGED <<envVars, _lastRightClickedElement, _lastMouseMoveTime, now, bgVars>>

\* A contextmenu listener that keeps the first element it saw.
ContextMenu_keepsFirst ==
    /\ pointer # Null
    /\ _lastRightClickedElement' =
           IF _lastRightClickedElement = Null THEN pointer ELSE _lastRightClickedElement
    /\ ev' = [op |-> "contextmenu", target |-> pointer]
    /\ UNCHANGED <<envVars, pointer, hoverVars, now, clipVars, bgVars, shownSinceEnter>>

\* The document's contextmenu listener, for a right click at the pointer.
ContextMenu ==
    /\ pointer # Null
    /\ _lastRightClickedElement' = pointer
    /\ ev' = [op |-> "contextmenu", target |-> pointer]
    /\ UNCHANGED <<envVars, pointer, hoverVars, now, clipVars, bgVars, shownSinceEnter>>

\* ------------------------------------------------ the context-menu path
\* formatCurrentElement without the hover build's own copyToClipboard call
formatCurrentElement_nocopy(bld, el, val) ==
    IF el = Null
    THEN Outcome(FALSE, [success |-> FALSE, error |-> "No element selected"], <<>>)
         @@ [calls |-> <<>>]
    ELSE IF tagName(el) # "TEXTAREA"
    THEN Outcome(FALSE, [success |-> FALSE,
                         error |-> "Selected element is not a textarea"], <<>>)
         @@ [calls |-> <<>>]
    ELSE IF isEmptyString(trim(val))
    THEN Outcome(FALSE, [success |-> FALSE, error |-> "Textarea is empty"], <<>>)
         @@ [calls |-> <<>>]
    ELSE LET out == processPayload(bld, trim(val)) IN
         out @@ [calls |-> <<Call(trim(val), out)>>]

\* formatCurrentElement: whether it threw, the FormatResult, the texts handed
\* to copyToClipboard and the processPayload calls made. `val` is the
\* element's value when it is a textarea.
formatCurrentElement(bld, el, val) ==
    IF el = Null
    THEN Outcome(FALSE, [success |-> FALSE, error |-> "No element selected"], <<>>)
         @@ [calls |-> <<>>]
    ELSE IF tagName(el) # "TEXTAREA"
    THEN Outcome(FALSE, [success |-> FALSE,
                         error |-> "Selected element is not a textarea"], <<>>)
         @@ [calls |-> <<>>]
    ELSE IF isEmptyString(trim(val))
    THEN Outcome(FALSE, [success |-> FALSE, error |-> "Textarea is empty"], <<>>)
         @@ [calls |-> <<>>]
    ELSE LET out == processPayload(bld, trim(val)) IN
         IF out.threw THEN out @@ [calls |-> <<Call(trim(val), out)>>]
         ELSE IF bld = "hover" /\ hasData(out.result)
         THEN [out EXCEPT !.copies = out.copies \o <<out.result.data>>]
              @@ [calls |-> <<Call(trim(val), out)>>]
         ELSE out @@ [calls |-> <<Call(trim(val), out)>>]

MenuId == "formatDynamoDBPayload"
MenuIds == {MenuId, "otherItem"}
\* the tab of a click: the page this content script runs in, a tab with no
\* content script listening, or none
Tabs == {"page", "noReceiver", "noTab"}

Note(kind, message) == [kind |-> kind, message |-> message]
SuccessNote == Note("success", "Formatted JSON copied to clipboard!")
GenericNote ==
    Note("generic",
         "Failed to format payload. Make sure you're right-clicking on a textarea.")
\* `Error: ${response.error}`
ErrorNote(response) ==
    Note("error", "Error: " \o (IF "error" \in DOMAIN response
                                THEN response.error ELSE "undefined"))

\* contextMenus.onClicked up to the await: the message is sent, or sending
\* rejects at once because nothing listens in the tab.
BgClick(menuItemId, tab) ==
    /\ clicks < MaxClicks
    /\ IF menuItemId = MenuId /\ tab # "noTab"
       THEN /\ clicks' = clicks + 1
            /\ IF tab = "page"
               THEN /\ requests' = Append(requests, [action |-> "formatPayload"])
                    /\ UNCHANGED notifications
               ELSE /\ notifications' = Append(notifications, GenericNote)
                    /\ UNCHANGED requests
       ELSE UNCHANGED <<clicks, requests, notifications>>
    /\ ev' = [op |-> "bgClick", menuItemId |-> menuItemId, tab |-> tab]
    /\ UNCHANGED <<envVars, pointer, _lastRightClickedElement, hoverVars,
                   now, clipVars, responses, shownSinceEnter>>

\* An onMessage listener whose answer waits for the copy: it reports a failure
\* when nothing could be copied.
ContentMessage_awaitsCopy(how) ==
    /\ requests # <<>>
    /\ LET message == Head(requests)
           el == _lastRightClickedElement
           r == formatCurrentElement(build, el,
                                     IF el \in Textareas THEN value[el] ELSE NoText)
           answer == IF r.copies # <<>> /\ how = "fallbackFails"
                     THEN [success |-> FALSE, error |-> "Copy failed"]
                     ELSE r.result
       IN IF message.action = "formatPayload"
          THEN /\ CopyAllowed(r.copies, how)
               /\ SetClip(copyEach(ClipHere, r.copies, how))
               /\ responses' = Append(responses,
                                      IF r.threw THEN NoResult ELSE answer)
               /\ ev' = [op |-> "message", el |-> el, threw |-> r.threw,
                         response |-> answer, copied |-> r.copies,
                         calls |-> r.calls]
          ELSE /\ how = "fallback"
               /\ UNCHANGED clipVars
               /\ responses' = Append(responses, NoResult)
               /\ ev' = [op |-> "message", el |-> el, threw |-> FALSE,
                         response |-> NoResult, copied |-> <<>>, calls |-> <<>>]
    /\ requests' = Tail(requests)
    /\ UNCHANGED <<envVars, pointer, _lastRightClickedElement, hoverVars,
                   now, notifications, clicks, shownSinceEnter>>

\* The content script's onMessage listener handles the oldest request.
ContentMessage(how) ==
    /\ requests # <<>>
    /\ LET message == Head(requests)
           el == _lastRightClickedElement
           r == formatCurrentElement(build, el,
                                     IF el \in Textareas THEN value[el] ELSE NoText)
       IN IF message.action = "formatPayload"
          THEN /\ CopyAllowed(r.copies, how)
               /\ SetClip(copyEach(ClipHere, r.copies, how))
               /\ responses' = Append(responses,
                                      IF r.threw THEN NoResult ELSE r.result)
               /\ ev' = [op |-> "message", el |-> el, threw |-> r.threw,
                         response |-> r.result, copied |-> r.copies,
                         calls |-> r.calls]
          ELSE /\ how = "fallback"
               /\ UNCHANGED clipVars
               /\ responses' = Append(responses, NoResult)
               /\ ev' = [op |-> "message", el |-> el, threw |-> FALSE,
                         response |-> NoResult, copied |-> <<>>, calls |-> <<>>]
    /\ requests' = Tail(requests)
    /\ UNCHANGED <<envVars, pointer, _lastRightClickedElement, hoverVars,
                   now, notifications, clicks, shownSinceEnter>>

\* a listener that tests the response instead of response.success
notificationFor_anyResponse(response) ==
    IF "success" \notin DOMAIN response THEN GenericNote ELSE SuccessNote

\* the notification the listener creates once sendMessage has settled
notificationFor(response) ==
    IF "success" \notin DOMAIN response THEN GenericNote
    ELSE IF response.success THEN SuccessNote
    ELSE ErrorNote(response)

\* contextMenus.onClicked after the await.
BgResponse ==
    /\ responses # <<>>
    /\ notifications' = Append(notifications, notificationFor(Head(responses)))
    /\ responses' = Tail(responses)
    /\ ev' = [op |-> "bgResponse", response |-> Head(responses),
              note |-> notificationFor(Head(responses))]
    /\ UNCHANGED <<envVars, pointer, _lastRightClickedElement, hoverVars,
                   now, clipVars, requests, clicks, shownSinceEnter>>

Next ==
    \/ \E target \in Elements : PointerMove(target)
    \/ Tick(MaxTicks)
    \/ \E t \in timers, l \in Layouts : TimerFire(t, l)
    \/ \E how \in CopyWays : Click(how)
    \/ ContextMenu
    \/ \E outcome \in {"resolved", "fallback", "fallbackFails"} : SettleWrite(outcome)
    \/ \E menuItemId \in MenuIds, tab \in Tabs : BgClick(menuItemId, tab)
    \/ \E how \in CopyWays : ContentMessage(how)
    \/ BgResponse

Spec == Init /\ [][Next]_vars

\* The page alone, without the background script, over a longer time.
NextHover ==
    \/ \E target \in Elements : PointerMove(target)
    \/ Tick(MaxHoverTicks)
    \/ \E t \in timers, l \in Layouts : TimerFire(t, l)
    \/ \E how \in CopyWays : Click(how)
    \/ \E outcome \in {"resolved", "fallback", "fallbackFails"} : SettleWrite(outcome)

SpecHover == Init /\ [][NextHover]_vars

\* The context-menu path: right click, menu click, request, response and
\* notification, with the pointer, the clicks and the clipboard, at one
\* instant (no timer comes due).
NextMenu ==
    \/ \E target \in Elements : PointerMove(target)
    \/ \E how \in CopyWays : Click(how)
    \/ ContextMenu
    \/ \E outcome \in {"resolved", "fallback", "fallbackFails"} : SettleWrite(outcome)
    \/ \E menuItemId \in MenuIds, tab \in Tabs : BgClick(menuItemId, tab)
    \/ \E how \in CopyWays : ContentMessage(how)
    \/ BgResponse

SpecMenu == Init /\ [][NextMenu]_vars

\* The two callers of processPayload, the hover timer callback and the
\* message handler, with the events that lead to them.
NextCallers ==
    \/ \E target \in Elements : PointerMove(target)
    \/ Tick(MaxTicks)
    \/ \E t \in timers, l \in Layouts : TimerFire(t, l)
    \/ ContextMenu
    \/ \E menuItemId \in MenuIds, tab \in Tabs : BgClick(menuItemId, tab)
    \/ \E how \in CopyWays : ContentMessage(how)

SpecCallers == Init /\ [][NextCallers]_vars

\* The handlers of the page: the mousemove, click and contextmenu listeners,
\* the hover timer callback and the message handler, with requests arriving
\* from the extension's menu item.
NextPage ==
    \/ \E target \in Elements : PointerMove(target)
    \/ Tick(MaxTicks)
    \/ \E t \in timers, l \in Layouts : TimerFire(t, l)
    \/ \E how \in CopyWays : Click(how)
    \/ ContextMenu
    \/ BgClick(MenuId, "page")
    \/ \E how \in CopyWays : ContentMessage(how)

SpecPage == Init /\ [][NextPage]_vars

\* Previews on a console page in the hover build, the page laid out in every
\* way of LayoutGrid when a preview is shown.
InitPosition ==
    /\ Init
    /\ build = "hover"
    /\ inConsole
    /\ value = [ta1 |-> Wrap(1), ta2 |-> <<"pad", <<"empty">>>>]

NextPosition ==
    \/ \E target \in Elements : PointerMove(target)
    \/ Tick(MaxTicks)
    \/ \E t \in timers, l \in LayoutGrid : TimerFire(t, l)

SpecPosition == InitPosition /\ [][NextPosition]_vars


\* ------------------------------------------------------------ the claims
\* the processPayload calls the last step made
CallsOf(e) == IF "calls" \in DOMAIN e THEN e.calls ELSE <<>>

\* C1: processPayload never throws. Every call a handler makes (the hover
\* timer callback, the message handler) returns a result, and for an input
\* that is not base64 of gzip of JSON the result has success = false and no
\* data; the message handler itself never ends by an exception.
C1_ProcessPayloadNeverThrows ==
    /\ \A i \in DOMAIN CallsOf(ev) :
        LET c == CallsOf(ev)[i] IN
        /\ ~c.out.threw
        /\ "success" \in DOMAIN c.out.result
        /\ ~IsPayload(c.input) =>
              /\ c.out.result.success = FALSE
              /\ "data" \notin DOMAIN c.out.result
    /\ ev.op = "message" => ~ev.threw

\* C1's case: the timer callback ran the pipeline on gzip data that is not JSON.
C1_Witness ==
    /\ ev.op = "timer"
    /\ Len(ev.calls) = 1
    /\ ev.calls[1].input = <<"b64", <<"gzip", <<"utf8", <<"text">>>>>>>>

\* C2: processPayload has no side effect: no call of it, successful or not,
\* hands anything to the clipboard (its other effects would have to go
\* through fields it never reads or writes).
C2_ProcessPayloadSideEffectFree ==
    \A i \in DOMAIN CallsOf(ev) : CallsOf(ev)[i].out.copies = <<>>

\* C3: on a formatPayload request copyToClipboard is called if and only if
\* the last right-clicked element is a textarea whose trimmed value is a
\* payload, and then with the formatted JSON and a success response;
\* otherwise the response has success = false and the clipboard, the pending
\* writes and the document body are untouched.
C3_ClipboardWrittenIffDecoded ==
    [][ev'.op = "message" =>
        LET el == _lastRightClickedElement
            text == Pretty(PayloadDoc(Content(el)))
        IN IF Decodable(el)
           THEN /\ ev'.copied = <<text>>
                /\ ev'.response = [success |-> TRUE, data |-> text]
                /\ \/ writes' = Append(writes, text) /\ clipboard' = clipboard
                   \/ writes' = writes /\ clipboard' \in {text, clipboard}
           ELSE /\ ev'.copied = <<>>
                /\ ev'.response.success = FALSE
                /\ UNCHANGED <<clipboard, writes, body>>]_vars

\* C3's case: a request was handled and the formatted JSON went to the clipboard.
C3_Witness ==
    /\ ev.op = "message"
    /\ ev.copied # <<>>
    /\ ev.response.success

\* C4: on a context-menu request a decode failure is a visible error: the
\* response for a textarea whose content does not decode carries an error
\* message, and the notification for a failed response reads "Error: "
\* followed by that message.
C4_DecodeFailureIsVisibleError ==
    /\ (/\ ev.op = "message"
        /\ ev.el \in Textareas
        /\ ~isEmptyString(Content(ev.el))
        /\ ~Decodable(ev.el))
       => /\ ev.response.success = FALSE
          /\ "error" \in DOMAIN ev.response
    /\ (/\ ev.op = "bgResponse"
        /\ "success" \in DOMAIN ev.response
        /\ ~ev.response.success)
       => /\ "error" \in DOMAIN ev.response
          /\ ev.note = [kind |-> "error", message |-> "Error: " \o ev.response.error]


\* C5: while the panel is visible and the pointer is on the hovered textarea,
\* a mouse move onto the panel leaves the panel visible, and a mouse move
\* onto any other element hides it.
C5_LeavingHidesUnlessOverPanel ==
    [][(/\ ev'.op = "mousemove"
        /\ _previewPanel.isVisible
        /\ pointer \in Textareas
        /\ pointer = _currentHoveredTextarea
        /\ ev'.target # pointer)
       => IF panelContains(ev'.target)
          THEN _previewPanel'.isVisible
          ELSE ~_previewPanel'.isVisible]_vars

\* C6: a timer whose textarea the pointer has left (and not come back to)
\* shows nothing: whenever the timer callback makes the panel show its
\* textarea, the pointer is on that textarea.
C6_LeavingCancelsTimer ==
    [][(/\ ev'.op = "timer"
        /\ ev'.ran
        /\ Shows(_previewPanel', ev'.ta))
       => pointer = ev'.ta]_vars

\* C7: a pointer resting on a textarea of the console page that holds a
\* payload gets its preview. As long as the panel has not shown that textarea
\* since the pointer came onto it, the preview is still on its way: the
\* timer for the textarea is pending, or the textarea is not yet the hovered
\* one, so that the next processed mouse move over it arms the timer.
\* (Where this fails nothing is left that could show the preview while the
\* pointer stays: mouse moves and clicks on the textarea change nothing.)
C7_PreviewOnItsWay ==
    \A ta \in Textareas :
        (/\ build = "hover"
         /\ inConsole
         /\ pointer = ta
         /\ Decodable(ta)
         /\ ~shownSinceEnter)
        => \/ _currentHoveredTextarea # ta
           \/ \E t \in timers : t.ta = ta /\ t.id = _hoverTimeout

\* C8: after the timer callback has run for textarea T the panel is visible
\* only if T's trimmed content decoded, and then it shows T's formatted JSON;
\* for content that does not decode, is empty or is all whitespace the panel
\* is not visible.
C8_FailureMeansNoPreview ==
    [][(ev'.op = "timer" /\ ev'.ran)
       => IF Decodable(ev'.ta)
          THEN Shows(_previewPanel', ev'.ta)
          ELSE ~_previewPanel'.isVisible]_vars


\* C9: a formatPayload request works on the target of the latest contextmenu
\* event: a contextmenu event stores its target, no other event changes the
\* stored element, the request reads the stored element, and with nothing
\* stored (no contextmenu event yet) it answers 'No element selected'.
C9_RequestUsesLastRightClicked ==
    [][/\ ev'.op = "contextmenu" =>
            /\ ev'.target = pointer
            /\ _lastRightClickedElement' = pointer
       /\ ev'.op # "contextmenu" => UNCHANGED _lastRightClickedElement
       /\ ev'.op = "message" =>
            /\ ev'.el = _lastRightClickedElement
            /\ _lastRightClickedElement = Null =>
                  ev'.response = [success |-> FALSE, error |-> "No element selected"]
            /\ Decodable(_lastRightClickedElement) =>
                  ev'.response =
                      [success |-> TRUE,
                       data |-> Pretty(PayloadDoc(Content(_lastRightClickedElement)))]
      ]_vars

\* C9's case: after a right click on one element and then on a textarea with
\* a payload, a request was answered from that textarea.
C9_Witness ==
    /\ ev.op = "message"
    /\ ev.el \in Textareas
    /\ ev.el = _lastRightClickedElement
    /\ ev.response.success

\* C9's other case: a request handled before any contextmenu event.
C9_WitnessNoElement ==
    /\ ev.op = "message"
    /\ ev.el = Null

\* C10: a click on the extension's menu item in a tab leads to one
\* notification: every such click is a notification already created or a
\* message still on its way; a response with success = true gives the
\* success notification, one with success = false the 'Error: ...'
\* notification, a failed send or a missing response the generic one; a click
\* on another item or without a tab creates none, and nothing else creates
\* notifications.
C10_OneNotificationPerClick ==
    /\ [](clicks = Len(notifications) + Len(requests) + Len(responses))
    /\ [][/\ ev'.op = "bgClick" =>
               IF ev'.menuItemId = "formatDynamoDBPayload" /\ ev'.tab # "noTab"
               THEN /\ clicks' = clicks + 1
                    /\ IF ev'.tab = "page"
                       THEN /\ notifications' = notifications
                            /\ Len(requests') = Len(requests) + 1
                       ELSE /\ Len(notifications') = Len(notifications) + 1
                            /\ notifications'[Len(notifications')].kind = "generic"
               ELSE UNCHANGED <<clicks, notifications, requests, responses>>
          /\ ev'.op = "bgResponse" =>
               LET r == Head(responses)
                   n == notifications'[Len(notifications')]
               IN /\ Len(notifications') = Len(notifications) + 1
                  /\ n.kind = "success" <=> ("success" \in DOMAIN r /\ r.success)
                  /\ n.kind = "error" <=> ("success" \in DOMAIN r /\ ~r.success)
                  /\ n.kind = "generic" <=> "success" \notin DOMAIN r
                  /\ n.kind = "success" =>
                        n.message = "Formatted JSON copied to clipboard!"
          /\ ev'.op \notin {"bgClick", "bgResponse"} => UNCHANGED notifications
         ]_vars

\* C10's case: the response to a click said success = false and the error
\* notification was created.
C10_Witness ==
    /\ ev.op = "bgResponse"
    /\ ev.note.kind = "error"
    /\ clicks = Len(notifications)

\* C11: the formatPayload response does not wait for the clipboard write and
\* does not depend on it. The message handler answers success = true with the
\* formatted JSON for a decodable textarea whichever way the copy goes; the
\* answer is already queued in the step in which a write through the
\* clipboard API is still pending; and the later settling of a write, by
\* resolving, by the fallback or by failing, changes no request, response or
\* notification.
C11_ResponseIndependentOfClipboard ==
    [][/\ (ev'.op = "message" /\ Decodable(_lastRightClickedElement)) =>
            /\ ev'.response =
                   [success |-> TRUE,
                    data |-> Pretty(PayloadDoc(Content(_lastRightClickedElement)))]
            /\ responses' = Append(responses, ev'.response)
            /\ writes' # writes =>
                   /\ writes' = Append(writes, ev'.response.data)
                   /\ clipboard' = clipboard
       /\ ev'.op = "settle" => UNCHANGED <<requests, responses, notifications>>
      ]_vars

\* C11's case: the success notification is up and the write it announced
\* then failed, fallback included, leaving the clipboard without the JSON.
C11_Witness ==
    /\ ev.op = "settle"
    /\ ev.outcome = "fallbackFails"
    /\ clipboard # ev.text
    /\ notifications = <<SuccessNote>>

\* C11's other case: the answer is queued while the write is still pending.
C11_WitnessPending ==
    /\ ev.op = "message"
    /\ ev.response.success
    /\ writes # <<>>
    /\ responses # <<>>

\* C12: at most one preview panel is visible at a time. The document holds
\* the one panel element created when the hover build's script was loaded
\* and no other (the basic build creates none), whatever events and timer
\* callbacks have run; and whenever a panel is displayed or flagged visible
\* it is that one element, the one _previewPanel refers to.
C12_OnePanel ==
    /\ panels = IF build = "hover" THEN 1 ELSE 0
    /\ (_previewPanel.isVisible \/ _previewPanel.display = "block") =>
           /\ build = "hover"
           /\ panels = 1

\* C12's case: a timer callback has put the second textarea's preview into
\* the panel, and the document still holds the one panel.
C12_Witness ==
    /\ ev.op = "timer"
    /\ ev.ta = "ta2"
    /\ Shows(_previewPanel, "ta2")
    /\ panels = 1

\* C13: the panel goes from hidden to visible only inside the hover timer
\* callback, and only when the hovered textarea at the time the callback runs
\* is the textarea the timer was armed for. A step that turns isVisible from
\* false to true, or display from none to block, is a timer callback that
\* passed its test; no mousemove, click, contextmenu, message or other step
\* does it.
C13_ShownOnlyByTimer ==
    [][(\/ ~_previewPanel.isVisible /\ _previewPanel'.isVisible
        \/ _previewPanel.display = "none" /\ _previewPanel'.display = "block")
       => /\ ev'.op = "timer"
          /\ ev'.ran
          /\ _currentHoveredTextarea = ev'.ta
          /\ \E t \in timers : t.ta = ev'.ta /\ t.due <= now /\ t \notin timers'
      ]_vars

\* C13's case: the callback of the first textarea's timer has just opened
\* the panel on that textarea's JSON.
C13_Witness ==
    /\ ev.op = "timer"
    /\ ev.ran
    /\ ev.ta = "ta1"
    /\ _currentHoveredTextarea = "ta1"
    /\ Shows(_previewPanel, "ta1")

\* C14: mousemove throttling in the hover build. A mousemove event less than
\* 100 ms after the last processed one is dropped: the hovered textarea, the
\* panel and the timestamp are unchanged, and so are the timer id and the
\* pending timers (apart from what the panel's own mouseenter listener
\* clears when the same pointer movement enters the panel). An event 100 ms
\* or more after the last processed one is processed and the timestamp
\* becomes the time of the event.
C14_MouseMoveThrottle ==
    [][(ev'.op = "mousemove" /\ build = "hover") =>
        IF now - _lastMouseMoveTime < 100
        THEN /\ ~ev'.processed
             /\ UNCHANGED <<_currentHoveredTextarea, _previewPanel,
                            _lastMouseMoveTime, panels>>
             /\ IF ev'.entered /\ _hoverTimeout # 0
                THEN /\ _hoverTimeout' = 0
                     /\ timers' = {t \in timers : t.id # _hoverTimeout}
                ELSE UNCHANGED <<_hoverTimeout, timers>>
        ELSE /\ ev'.processed
             /\ _lastMouseMoveTime' = now
      ]_vars

\* C14's case: with a timer pending for one textarea, a mousemove over
\* another element came within the throttle period and was dropped.
C14_Witness ==
    /\ ev.op = "mousemove"
    /\ build = "hover"
    /\ ~ev.processed
    /\ ~ev.entered
    /\ now - _lastMouseMoveTime < 100
    /\ _currentHoveredTextarea \in Textareas
    /\ ev.target # _currentHoveredTextarea
    /\ \E t \in timers : t.id = _hoverTimeout

\* C14's other case: a mousemove exactly 100 ms after the last processed one
\* was processed.
C14_WitnessProcessed ==
    /\ ev.op = "mousemove"
    /\ ev.processed
    /\ _lastMouseMoveTime = now
    /\ now = LoadTime + 100
    /\ ev.target = "div"
    /\ _currentHoveredTextarea = Null
    /\ ~shownSinceEnter
    /\ timers = {}

\* C15: the hover timer is armed only for a qualifying target. A step that
\* adds a pending timer or sets the timer id is a processed mousemove whose
\* target is a textarea on a page of the console host, and the timer it adds
\* is for that target; on a page of any other host no timer is ever pending
\* or recorded, no textarea is ever the hovered one and the panel is never
\* visible.
C15_TimerOnlyForQualifyingTarget ==
    /\ [][(timers' \ timers # {} \/ _hoverTimeout' \notin {0, _hoverTimeout}) =>
            /\ ev'.op = "mousemove"
            /\ ev'.processed
            /\ tagName(ev'.target) = "TEXTAREA"
            /\ inConsole
            /\ \A t \in timers' \ timers :
                  /\ t.ta = ev'.target
                  /\ t.id = _hoverTimeout'
         ]_vars
    /\ [](~inConsole =>
            /\ timers = {}
            /\ _hoverTimeout = 0
            /\ _currentHoveredTextarea = Null
            /\ ~_previewPanel.isVisible
            /\ _previewPanel.display = "none")

\* C15's case: a processed mousemove over a textarea of a console page has
\* armed the timer for it.
C15_Witness ==
    /\ ev.op = "mousemove"
    /\ ev.processed
    /\ inConsole
    /\ ev.target \in Textareas
    /\ timers = {[id |-> _hoverTimeout, ta |-> ev.target, due |-> now + 300]}

\* C15's other case: on another host a processed mousemove over a textarea
\* has armed nothing.
C15_WitnessOtherHost ==
    /\ ev.op = "mousemove"
    /\ ev.processed
    /\ ~inConsole
    /\ ev.target \in Textareas
    /\ Decodable(ev.target)
    /\ timers = {}
    /\ now > LoadTime

\* C16: the clipboard fallback. When a pending clipboard API write rejects,
\* the manual copy runs once for the text of that write: the write is gone
\* from the pending ones and none is added, and the clipboard holds that text
\* (or is as before when execCommand copied nothing). When the API is missing
\* and a handler's copy falls back at once, nothing becomes pending and the
\* clipboard holds the handler's text or is as before. In every state, so
\* after every fallback, no temporary textarea is left in the document body.
C16_FallbackCopiesOnceAndCleansUp ==
    /\ [](body = 0)
    /\ [][/\ (ev'.op = "settle" /\ ev'.outcome # "resolved") =>
               /\ writes # <<>>
               /\ ev'.text = Head(writes)
               /\ writes' = Tail(writes)
               /\ clipboard' = IF ev'.outcome = "fallback" THEN ev'.text
                               ELSE clipboard
               /\ body' = body
          /\ (/\ ev'.op \in {"message", "click"}
              /\ ev'.copied # <<>>
              /\ writes' = writes) =>
               /\ clipboard' \in {clipboard, ev'.copied[Len(ev'.copied)]}
               /\ body' = body
         ]_vars

\* C16's case: a pending write rejected and the manual copy put its text on
\* the clipboard, which held something else; the body is as before.
C16_Witness ==
    /\ ev.op = "settle"
    /\ ev.outcome = "fallback"
    /\ clipboard = ev.text
    /\ clipboard # NoText
    /\ writes = <<>>
    /\ body = 0

\* C16's other case: the API was missing when the message handler copied,
\* and the manual copy ran inside the handler.
C16_WitnessAtOnce ==
    /\ ev.op = "message"
    /\ ev.copied # <<>>
    /\ writes = <<>>
    /\ clipboard = ev.copied[1]
    /\ body = 0

\* C17: where a shown panel is put, for integer rectangles and window sizes.
\* left is rect.right + 10, or rect.left - 510 when rect.right + 10 + 500
\* exceeds the window's width; top is rect.top, lowered where needed so that
\* top + 400 does not exceed the window's height minus 10; and neither the
\* final left nor the final top is less than 10.
C17_PanelPosition ==
    (/\ ev.op = "timer"
     /\ ev.ran
     /\ Shows(_previewPanel, ev.ta))
    => LET l == ev.layout
           left == IF l.right + 10 + 500 > l.innerWidth
                   THEN l.left - 510 ELSE l.right + 10
           top == IF l.top + 400 > l.innerHeight - 10
                  THEN l.innerHeight - 10 - 400 ELSE l.top
       IN _previewPanel.position =
              <<IF left < 10 THEN 10 ELSE left, IF top < 10 THEN 10 ELSE top>>

\* C18: in every reachable state the panel's isVisible flag agrees with the
\* display style of its element: the flag is true exactly when display is
\* block and false exactly when display is none.
C18_FlagAgreesWithDisplay ==
    /\ _previewPanel.display \in {"block", "none"}
    /\ _previewPanel.isVisible <=> _previewPanel.display = "block"
    /\ ~_previewPanel.isVisible <=> _previewPanel.display = "none"

\* C18's case: a panel that a timer callback had shown has been hidden by a
\* click outside it.
C18_Witness ==
    /\ ev.op = "click"
    /\ ~panelContains(ev.target)
    /\ _previewPanel.content # NoText
    /\ _previewPanel.position # <<>>
    /\ ~_previewPanel.isVisible
    /\ _previewPanel.display = "none"

\* C18's other case: a panel shown by a timer armed after the first timer's
\* delay had passed.
C18_WitnessShownAgain ==
    /\ ev.op = "timer"
    /\ _previewPanel.isVisible
    /\ _previewPanel.display = "block"
    /\ now >= LoadTime + 2 * _hoverDelay

\* C19: at most one hover timer is pending at any time, and a pending timer
\* belongs to the currently hovered textarea: it is the timer whose id
\* _hoverTimeout holds and it was armed for _currentHoveredTextarea; while
\* _currentHoveredTextarea is null no timer is pending.
C19_OneTimerForHoveredTextarea ==
    /\ Cardinality(timers) <= 1
    /\ \A t \in timers :
          /\ t.id = _hoverTimeout
          /\ t.ta = _currentHoveredTextarea
    /\ _currentHoveredTextarea = Null => timers = {}

\* C19's case: one throttle period after the script was loaded a processed
\* mousemove over the second textarea has armed a timer; it is the only one
\* pending, whatever the pointer was over before.
C19_Witness ==
    /\ ev.op = "mousemove"
    /\ ev.processed
    /\ ev.target = "ta2"
    /\ now = LoadTime + _mouseMoveThrottle
    /\ _previewPanel = InitialPanel
    /\ timers = {[id |-> _hoverTimeout, ta |-> "ta2", due |-> now + _hoverDelay]}

\* C20: whenever the panel is visible, a click on its Copy button hands to
\* copyToClipboard exactly the text the panel's content area displays, and
\* nothing else: the text becomes a pending clipboard write, or, the API
\* missing, is copied at once (the clipboard then holds it, or is as before
\* when execCommand copied nothing). Hence the button's handler is always the
\* one for the displayed text.
C20_CopyButtonCopiesDisplayedText ==
    /\ [](_previewPanel.isVisible => _previewPanel.onclick = _previewPanel.content)
    /\ [][(/\ ev'.op = "click"
           /\ ev'.target = "copyButton"
           /\ _previewPanel.isVisible) =>
            /\ ev'.copied = <<_previewPanel.content>>
            /\ \/ /\ writes' = Append(writes, _previewPanel.content)
                  /\ clipboard' = clipboard
               \/ /\ writes' = writes
                  /\ clipboard' \in {_previewPanel.content, clipboard}
         ]_vars

\* C20's case: on a page whose two textareas hold different payloads, a
\* click on Copy has put the second textarea's JSON, which the panel
\* displays, on the clipboard.
C20_Witness ==
    /\ ev.op = "click"
    /\ ev.target = "copyButton"
    /\ ev.copied = <<Pretty(MaxDocs)>>
    /\ _previewPanel.isVisible
    /\ _previewPanel.content = Pretty(MaxDocs)
    /\ clipboard = Pretty(MaxDocs)
    /\ value["ta1"] = Wrap(1)

\* C21: a click while the panel is visible. With its target outside the
\* panel the click hides the panel (flag and display) and cancels the pending
\* hover timer: none is pending afterwards and the timer id is null. With its
\* target inside the panel the click leaves the panel visible and the timer
\* id and the pending timers as they were.
C21_ClickOutsideHidesAndCancels ==
    [][(/\ ev'.op = "click"
        /\ build = "hover"
        /\ _previewPanel.isVisible) =>
        IF panelContains(ev'.target)
        THEN /\ _previewPanel'.isVisible
             /\ _previewPanel'.display = "block"
             /\ UNCHANGED <<_hoverTimeout, timers>>
        ELSE /\ ~_previewPanel'.isVisible
             /\ _previewPanel'.display = "none"
             /\ timers' = {}
             /\ _hoverTimeout' = 0
      ]_vars

\* C21's case: the panel showed the first textarea's JSON, the pointer went
\* on to the second textarea and armed its timer, and a click there hid the
\* panel and left no timer.
C21_Witness ==
    /\ ev.op = "click"
    /\ ev.target = "ta2"
    /\ _currentHoveredTextarea = "ta2"
    /\ _previewPanel.content = Pretty(1)
    /\ ~_previewPanel.isVisible
    /\ timers = {}
    /\ _hoverTimeout = 0
    /\ now < LoadTime + 2 * _hoverDelay

\* C21's other case: a click on the Copy button left the panel visible.
C21_WitnessInside ==
    /\ ev.op = "click"
    /\ ev.target = "copyButton"
    /\ ev.copied # <<>>
    /\ _previewPanel.isVisible
    /\ writes # <<>>

=============================================================================
